---- MODULE Spec2Model ----
(***************************************************************************)
(* Model of the MoTeC LD writer (package motec_ld_parser, file.go, and the *)
(* record layouts of package ldfile).                                      *)
(*                                                                         *)
(* A File holds text metadata and an ordered collection of channel         *)
(* entries; File.Write lays the records out in an os.File: Header, Event,  *)
(* Venue, Vehicle, one metadata record per channel, then the channels'     *)
(* sample data.  The sink is modelled by its file offset, its size and the *)
(* list of the writes the running (or last) Write call performed.          *)
(***************************************************************************)
EXTENDS Integers, Sequences, FiniteSets, TLC

VARIABLES
    f,          \* the File: its text fields, VehicleWeight and Channels
    heap,       \* the Channel objects the caller allocated, by address 1..Len(heap)
    fd,         \* the os.File: [pos, size], offset of the descriptor and file size
    written,    \* the writes of the running/last File.Write: <<[at, size, rec]>>
    w,          \* the frame of File.Write: pc, loop index and the locals
    io,         \* the sink's faults seen by the running/last File.Write
    added,      \* history: the arguments of the AddChannels calls, in call order
    appended,   \* history: per Channel object, the samples passed to AddData
    closed      \* history: the file closed last, if one faultless call wrote it from
                \* offset 0 of an empty file and the File is as it was then

vars == <<f, heap, fd, written, w, io, added, appended, closed>>

-----------------------------------------------------------------------------
(* Bounds of the model *)

\* most entries in File.Channels
MaxChannels == 3
\* most samples held by all Channel objects together
MaxSamples == 2

-----------------------------------------------------------------------------
(* Fixed-width integers *)

\* uint16(x)
U16(x) == x % 65536
\* uint32(x), the low 32 bits, taken in two halves of 16 bits
U32(x) == ((x \div 65536) % 65536) * 65536 + (x % 65536)

Min(a, b) == IF a < b THEN a ELSE b

RECURSIVE SumSeq(_)
SumSeq(s) == IF s = <<>> THEN 0 ELSE Head(s) + SumSeq(Tail(s))

RECURSIVE Flatten(_)
Flatten(ss) == IF ss = <<>> THEN <<>> ELSE Head(ss) \o Flatten(Tail(ss))

-----------------------------------------------------------------------------
(* ldfile: record layouts.  binary.Size of a struct is the sum of the      *)
(* sizes of its fields, blank (_) fields included.                         *)

\* LdFileHead
headerSize ==
    4 + 4 + 4 + 4 + 20 + 4 + 24 + 2 + 2 + 2 + 4 + 8 + 2 + 2 + 4 + 4
      + 16 + 16 + 16 + 16 + 64 + 64 + 64 + 64 + 64 + 1024 + 4 + 66 + 64 + 126
\* LdFileEvent
eventSize == 64 + 64 + 1024 + 2
\* LdFileVenue
venueSize == 64 + 1034 + 2
\* LdFileVehicle
vehicleSize == 64 + 128 + 4 + 32 + 32
\* LdFileChannelMeta
channelMetaSize == 4 + 4 + 4 + 4 + 2 + 2 + 2 + 2 + 2 + 2 + 2 + 2 + 32 + 8 + 12 + 40

\* capacities of the fixed-width text fields
CapHeadText == 64
CapEventName == 64
CapEventSession == 64
CapEventComment == 1024
CapVenueName == 64
CapVehicleId == 64
CapVehicleType == 32
CapVehicleComment == 32
CapChannelName == 32
CapChannelShortName == 8
CapChannelUnit == 12

\* ChannelId of channel n is ChannelIdBase + n (0x2EE1)
ChannelIdBase == 12001

-----------------------------------------------------------------------------
(* ldfile.DataType: (type tag, element width) of the element types         *)

ElemTypes == {"float32", "int16", "int32"}

DataTypeFloat32 == [DataType |-> 7, DataTypeLength |-> 4]
DataTypeInt16 == [DataType |-> 3, DataTypeLength |-> 2]
DataTypeInt32 == [DataType |-> 5, DataTypeLength |-> 4]

\* the type switch of Channel.Write
DataTypeOf(T) ==
    CASE T = "float32" -> DataTypeFloat32
      [] T = "int16" -> DataTypeInt16
      [] T = "int32" -> DataTypeInt32

-----------------------------------------------------------------------------
(* Text.  A Go string is a sequence of bytes.  copy(dst[:], s) copies      *)
(* min(len(dst), len(s)) bytes into the zeroed array dst; the array is     *)
(* kept as its copied prefix and the number of zero bytes after it.        *)

\* mutant: the last byte of the array kept for a terminating zero
CopyTextTerminated(cap, s) ==
    LET n == Min(cap - 1, Len(s))
    IN [data |-> SubSeq(s, 1, n), pad |-> cap - n]

CopyText(cap, s) ==
    LET n == Min(cap, Len(s))
    IN [data |-> SubSeq(s, 1, n), pad |-> cap - n]

\* the bytes of a fixed-width field, as binary.Write emits them
FieldBytes(fld) == fld.data \o [i \in 1..fld.pad |-> 0]

-----------------------------------------------------------------------------
(* Sample encoding: binary.Write(buf, LittleEndian, c.Data)                *)

\* the little-endian IEEE-754 single precision bytes of the float samples used
\* (-1.0 is 0xBF800000, 1.0 is 0x3F800000, 2.0 is 0x40000000)
Float32Bytes(v) ==
    CASE v = -1 -> <<0, 0, 128, 191>>
      [] v = 0 -> <<0, 0, 0, 0>>
      [] v = 1 -> <<0, 0, 128, 63>>
      [] v = 2 -> <<0, 0, 0, 64>>

RECURSIVE Pow256(_)
Pow256(n) == IF n = 0 THEN 1 ELSE 256 * Pow256(n - 1)

\* the little-endian two's complement bytes of the integer v in width bytes
LittleEndian(width, v) == [i \in 1..width |-> (v \div Pow256(i - 1)) % 256]

EncodeSample(T, v) ==
    IF T = "float32" THEN Float32Bytes(v)
    ELSE LittleEndian(DataTypeOf(T).DataTypeLength, v)

EncodeData(T, data) == Flatten([i \in 1..Len(data) |-> EncodeSample(T, data[i])])

-----------------------------------------------------------------------------
(* Inputs of the caller *)

\* a string of n non-zero bytes, different for different tags
Str(tag, n) == [i \in 1..n |-> 1 + ((17 * tag + i) % 255)]

\* length of the string put into a field of capacity cap
TextLen(profile, cap) ==
    CASE profile = "empty" -> 0
      [] profile = "short" -> 3
      [] profile = "exact" -> cap
      [] profile = "over" -> cap + 1
      [] profile = "long" -> cap + 36

TextProfiles == {"empty", "short", "exact", "over", "long"}

\* a File literal, Channels empty; File.Time is not modelled
FileInput(profile) ==
    [ Driver         |-> Str(1, TextLen(profile, CapHeadText)),
      Vehicle        |-> Str(2, TextLen(profile, CapHeadText)),
      Venue          |-> Str(3, TextLen(profile, CapHeadText)),
      ShortComment   |-> Str(4, TextLen(profile, CapHeadText)),
      EventName      |-> Str(5, TextLen(profile, CapEventName)),
      EventSession   |-> Str(6, TextLen(profile, CapEventSession)),
      EventComment   |-> Str(7, TextLen(profile, CapEventComment)),
      VehicleId      |-> Str(8, TextLen(profile, CapVehicleId)),
      VehicleWeight  |-> 1450,
      VehicleType    |-> Str(9, TextLen(profile, CapVehicleType)),
      VehicleComment |-> Str(10, TextLen(profile, CapVehicleComment)),
      Channels       |-> <<>> ]

\* Channel.Data is a pointer to a slice: nil, or the address of the samples s
NilData == [nil |-> TRUE, s |-> <<>>]
DataPtr(s) == [nil |-> FALSE, s |-> s]

\* the signal the caller logs: sample number j of a channel
SampleAt(j) == IF j % 2 = 1 THEN -1 ELSE 2

InputFrequency(T) ==
    CASE T = "float32" -> 100
      [] T = "int16" -> 50
      [] T = "int32" -> 10

InputTag(T) ==
    CASE T = "float32" -> 20
      [] T = "int16" -> 30
      [] T = "int32" -> 40

\* a Channel[T] literal
ChannelInput(T, profile, data) ==
    [ T         |-> T,
      Frequency |-> InputFrequency(T),
      Name      |-> Str(InputTag(T) + 1, TextLen(profile, CapChannelName)),
      ShortName |-> Str(InputTag(T) + 2, TextLen(profile, CapChannelShortName)),
      Unit      |-> Str(InputTag(T) + 3, TextLen(profile, CapChannelUnit)),
      Data      |-> data ]

\* an argument of AddChannels(channels ...interface{}): a *Channel[T], or any
\* other value, here a Channel[T] passed by value
PtrArg(c) == [kind |-> "ptr", c |-> c]
ValueArg(c) == [kind |-> "value", c |-> c]

\* the arguments used: channels of the three types, created without samples or
\* with a first sample, one whose Data was never set, and one passed by value
ArgInputs ==
    {PtrArg(ChannelInput("float32", "short", DataPtr(<<>>))),
     PtrArg(ChannelInput("int16", "short", DataPtr(<<SampleAt(1)>>))),
     PtrArg(ChannelInput("int32", "short", DataPtr(<<>>))),
     PtrArg(ChannelInput("float32", "short", NilData)),
     ValueArg(ChannelInput("int16", "short", DataPtr(<<>>)))}

IOArgInputs ==
    {PtrArg(ChannelInput("float32", "short", DataPtr(<<>>))),
     PtrArg(ChannelInput("int16", "short", DataPtr(<<SampleAt(1)>>)))}

TextArgInputs ==
    {PtrArg(ChannelInput("float32", p, DataPtr(<<>>))) : p \in TextProfiles}

\* most arguments of one AddChannels call
MaxArgs == 2

-----------------------------------------------------------------------------
(* State after construction *)

\* len is the length of File.Channels the range statement of the loop took
IdleFrame ==
    [ pc |-> "idle", i |-> 0, len |-> 0, ChannelsCount |-> 0, channelsMetaPointer |-> 0,
      channelsDataPointer |-> 0, currentDataPointer |-> 0, startPos |-> 0,
      startSize |-> 0 ]

NoFaults == [errors |-> 0, firstErrAt |-> -1]

\* no such file; otherwise out and size are the writes made to it and its size
NoFile == [some |-> FALSE, out |-> <<>>, size |-> 0]

InitWith(profiles) ==
    /\ f \in {FileInput(p) : p \in profiles}
    /\ heap = <<>>
    /\ fd = [pos |-> 0, size |-> 0]
    /\ written = <<>>
    /\ w = IdleFrame
    /\ io = NoFaults
    /\ added = <<>>
    /\ appended = <<>>
    /\ closed = NoFile

Init == InitWith({"short"})

TotalSamples(h) == SumSeq([a \in 1..Len(h) |-> Len(h[a].Data.s)])

ArgSamples(args) == SumSeq([j \in 1..Len(args) |-> Len(args[j].c.Data.s)])

-----------------------------------------------------------------------------
(* File.AddChannels and Channel.AddData *)

\* the addresses of the Channel objects behind the pointer arguments
RECURSIVE Allocate(_, _)
Allocate(args, next) ==
    IF args = <<>> THEN <<>>
    ELSE IF Head(args).kind = "ptr"
         THEN <<[kind |-> "ptr", ref |-> next]>> \o Allocate(Tail(args), next + 1)
         ELSE <<[kind |-> "value", ref |-> 0]>> \o Allocate(Tail(args), next)

PtrObjects(args) == SelectSeq(args, LAMBDA a : a.kind = "ptr")

\* mutant: the new channels put in front
AppendChannelsInFront(channels, entries) == entries \o channels

\* f.Channels = append(f.Channels, channels...)
AppendChannels(channels, entries) == channels \o entries

AddChannels(args) ==
    /\ w.pc = "idle"
    /\ Len(f.Channels) + Len(args) <= MaxChannels
    /\ TotalSamples(heap) + ArgSamples(args) <= MaxSamples
    /\ LET objs == PtrObjects(args)
       IN /\ heap' = heap \o [j \in 1..Len(objs) |-> objs[j].c]
          /\ appended' = appended \o [j \in 1..Len(objs) |-> <<>>]
    /\ f' = [f EXCEPT !.Channels = AppendChannels(@, Allocate(args, Len(heap) + 1))]
    /\ added' = added \o args
    /\ closed' = NoFile
    /\ UNCHANGED <<fd, written, w, io>>

\* *c.Data = append(*c.Data, data)
AppendData(s, data) == Append(s, data)

AddData(a, data) ==
    /\ w.pc = "idle"
    /\ a \in 1..Len(heap)
    /\ IF heap[a].Data.nil
       THEN \* nil pointer dereference: the panic ends the caller
            /\ w' = [w EXCEPT !.pc = "panicInAddData"]
            /\ UNCHANGED <<heap, appended, closed>>
       ELSE /\ TotalSamples(heap) < MaxSamples
            /\ heap' = [heap EXCEPT ![a].Data.s = AppendData(@, data)]
            /\ appended' = [appended EXCEPT ![a] = Append(@, data)]
            /\ closed' = NoFile
            /\ UNCHANGED w
    /\ UNCHANGED <<f, fd, written, io, added>>

-----------------------------------------------------------------------------
(* The sink: an *os.File.  A sink state s is [pos, size, out, errors,       *)
(* firstErrAt]: the descriptor's offset, the file's size, the writes made, *)
(* the number of operations that failed and the length of out when the     *)
(* first of them failed (-1: none).  File.Write and Channel.Write drop the *)
(* error every Seek and binary.Write returns.                              *)

Max(a, b) == IF a > b THEN a ELSE b

\* an operation of the sink fails: nothing is written, the offset stays
Fail(s) ==
    [s EXCEPT !.errors = @ + 1,
              !.firstErrAt = IF @ < 0 THEN Len(s.out) ELSE @]

\* fd.Seek(int64(off), 0)
Seek(s, off, ok) == IF ok THEN [s EXCEPT !.pos = off] ELSE Fail(s)

\* binary.Write(fd, binary.LittleEndian, rec): the size bytes of rec go to the
\* descriptor's current offset; n is the channel index of the caller, -1 in File.Write
WriteRec(s, rec, size, n, ok) ==
    IF ok
    THEN [s EXCEPT !.out = Append(@, [at |-> s.pos, size |-> size, rec |-> rec, n |-> n]),
                   !.pos = @ + size,
                   !.size = IF size > 0 THEN Max(@, s.pos + size) ELSE @]
    ELSE Fail(s)

-----------------------------------------------------------------------------
(* File.Write: the pointers *)

eventPointer == headerSize
\* mutant: the Venue placed one Header, not one Event, after the Event's start
venuePointerWrongSize == eventPointer + headerSize
venuePointer == eventPointer + eventSize
vehiclePointer == venuePointer + venueSize
channelsMetaPointer == vehiclePointer + vehicleSize
\* mutant: room for one metadata record too many
channelsDataPointerOneMore(nChannels) ==
    channelsMetaPointer + channelMetaSize * (nChannels + 1)
channelsDataPointer(nChannels) == channelsMetaPointer + channelMetaSize * nChannels

(* File.Write: the records *)

HeadRecord(file) ==
    [ kind                |-> "head",
      LDMarker            |-> 64,
      Unknown1            |-> 1,
      Unknown2            |-> 16960,
      Unknown3            |-> 15,
      Unknown4            |-> 44464,
      DeviceSerial        |-> 8004,
      DeviceVersion       |-> 420,
      EnableProLogging    |-> 819620,
      ChannelsCount       |-> U32(Len(file.Channels)),
      EventPointer        |-> U32(eventPointer),
      ChannelsMetaPointer |-> U32(channelsMetaPointer),
      ChannelsDataPointer |-> U32(channelsDataPointer(Len(file.Channels))),
      Driver              |-> CopyText(CapHeadText, file.Driver),
      Vehicle             |-> CopyText(CapHeadText, file.Vehicle),
      Venue               |-> CopyText(CapHeadText, file.Venue),
      ShortComment        |-> CopyText(CapHeadText, file.ShortComment) ]

EventRecord(file) ==
    [ kind         |-> "event",
      VenuePointer |-> U16(venuePointer),
      Name         |-> CopyText(CapEventName, file.EventName),
      Session      |-> CopyText(CapEventSession, file.EventSession),
      Comment      |-> CopyText(CapEventComment, file.EventComment) ]

VenueRecord(file) ==
    [ kind           |-> "venue",
      VehiclePointer |-> U16(vehiclePointer),
      Name           |-> CopyText(CapVenueName, file.Venue) ]

VehicleRecord(file) ==
    [ kind    |-> "vehicle",
      Weight  |-> file.VehicleWeight,
      Id      |-> CopyText(CapVehicleId, file.VehicleId),
      Type    |-> CopyText(CapVehicleType, file.VehicleType),
      Comment |-> CopyText(CapVehicleComment, file.VehicleComment) ]

\* the seven sink operations of File.Write before the channel loop; operation
\* number fail (1..7) fails, none when fail = 0
WriteHead(s, file, fail) ==
    LET s1 == WriteRec(s, HeadRecord(file), headerSize, -1, fail # 1)
        s2 == Seek(s1, eventPointer, fail # 2)
        s3 == WriteRec(s2, EventRecord(file), eventSize, -1, fail # 3)
        s4 == Seek(s3, venuePointer, fail # 4)
        s5 == WriteRec(s4, VenueRecord(file), venueSize, -1, fail # 5)
        s6 == Seek(s5, vehiclePointer, fail # 6)
    IN WriteRec(s6, VehicleRecord(file), vehicleSize, -1, fail # 7)

-----------------------------------------------------------------------------
(* Channel.Write *)

\* n and channelsCount - 1 are compared as uint16; uint16(uint32(x)) is x mod 2^16
previousMetaPointer(n, metaPointer) ==
    IF n > 0 THEN metaPointer + channelMetaSize * (n - 1) ELSE 0

\* mutant: the last-index test against channelsCount, not channelsCount - 1
nextMetaPointerOffByOne(n, channelsCount, metaPointer) ==
    IF n < U16(channelsCount)
    THEN metaPointer + channelMetaSize * U16(n + 1)
    ELSE 0

nextMetaPointer(n, channelsCount, metaPointer) ==
    IF n < U16(channelsCount - 1)
    THEN metaPointer + channelMetaSize * U16(n + 1)
    ELSE 0

currentMetaPointer(n, metaPointer) == metaPointer + channelMetaSize * n

ChannelMeta(c, n, channelsCount, metaPointer, dataPointer) ==
    [ kind                |-> "meta",
      PreviousMetaPointer |-> U32(previousMetaPointer(n, metaPointer)),
      NextMetaPointer     |-> U32(nextMetaPointer(n, channelsCount, metaPointer)),
      DataPointer         |-> U32(dataPointer),
      DataLength          |-> U32(Len(c.Data.s)),
      ChannelId           |-> U16(ChannelIdBase + n),
      DataType            |-> DataTypeOf(c.T).DataType,
      DataTypeLength      |-> DataTypeOf(c.T).DataTypeLength,
      Frequency           |-> c.Frequency,
      Shift               |-> 0,
      Mul                 |-> 1,
      Scale               |-> 1,
      DecPlaces           |-> 0,
      Name                |-> CopyText(CapChannelName, c.Name),
      ShortName           |-> CopyText(CapChannelShortName, c.ShortName),
      Unit                |-> CopyText(CapChannelUnit, c.Unit) ]

\* mutant: an empty sample sequence encoded as one zero element
BinaryDataPadded(c) ==
    IF c.Data.s = <<>>
    THEN [j \in 1..DataTypeOf(c.T).DataTypeLength |-> 0]
    ELSE EncodeData(c.T, c.Data.s)

\* binaryData
BinaryData(c) == EncodeData(c.T, c.Data.s)

DataRecord(c) == [kind |-> "data", bytes |-> BinaryData(c)]

\* mutant: the data pointer advanced by the number of samples, not of bytes
NextDataPointerInSamples(c, dataPointer) == dataPointer + Len(c.Data.s)

\* nextDataPointer
NextDataPointer(c, dataPointer) == dataPointer + Len(BinaryData(c))

\* the four sink operations of Channel.Write; operation number fail (1..4)
\* fails, none when fail = 0
ChannelWrite(s, c, n, channelsCount, metaPointer, dataPointer, fail) ==
    LET s1 == Seek(s, currentMetaPointer(n, metaPointer), fail # 1)
        s2 == WriteRec(s1, ChannelMeta(c, n, channelsCount, metaPointer, dataPointer),
                       channelMetaSize, n, fail # 2)
        s3 == Seek(s2, dataPointer, fail # 3)
    IN WriteRec(s3, DataRecord(c), Len(BinaryData(c)), n, fail # 4)

-----------------------------------------------------------------------------
(* File.Write.  It runs to its end without the caller running in between.  *)
(* The sink operations of a call are numbered in the order the code makes  *)
(* them: 1..7 before the loop, 7 + 4i + 1 .. 7 + 4i + 4 in iteration i;    *)
(* operation number fail fails, none when fail = 0.                        *)

HeadOps == 7
ChannelOps == 4

\* the type switch of the loop: only a pointer to a Channel is written
Supported(entry) == entry.kind = "ptr"

\* for i, channel := range f.Channels, from iteration i on; st is [s, cur, i, pc]:
\* the sink, currentDataPointer, the iteration reached and how the loop ended
RECURSIVE ChannelsLoop(_, _, _, _, _, _)
ChannelsLoop(channels, h, st, channelsCount, metaPointer, fail) ==
    IF st.i = Len(channels)
    THEN [st EXCEPT !.pc = "done"]
    ELSE LET entry == channels[st.i + 1]
         IN IF ~Supported(entry)
            THEN ChannelsLoop(channels, h, [st EXCEPT !.i = @ + 1],
                              channelsCount, metaPointer, fail)
            ELSE IF h[entry.ref].Data.nil
            THEN \* len(*c.Data): nil pointer dereference
                 [st EXCEPT !.pc = "panic"]
            ELSE LET c == h[entry.ref]
                     s == ChannelWrite(st.s, c, U16(st.i), channelsCount, metaPointer,
                                       st.cur, fail - (HeadOps + ChannelOps * st.i))
                 IN ChannelsLoop(channels, h,
                                 [st EXCEPT !.s = s, !.i = @ + 1,
                                            !.cur = NextDataPointer(c, @)],
                                 channelsCount, metaPointer, fail)

\* what a call that ended in loop state st leaves behind
WriteReturn(st) ==
    /\ fd' = [pos |-> st.s.pos, size |-> st.s.size]
    /\ written' = st.s.out
    /\ io' = [errors |-> st.s.errors, firstErrAt |-> st.s.firstErrAt]
    /\ w' = [ pc |-> st.pc,
              i |-> st.i,
              len |-> Len(f.Channels),
              ChannelsCount |-> HeadRecord(f).ChannelsCount,
              channelsMetaPointer |-> channelsMetaPointer,
              channelsDataPointer |-> channelsDataPointer(Len(f.Channels)),
              currentDataPointer |-> st.cur,
              startPos |-> fd.pos,
              startSize |-> fd.size ]

\* the sink as a call finds it
SinkAtCall == [pos |-> fd.pos, size |-> fd.size, out |-> <<>>, errors |-> 0, firstErrAt |-> -1]

\* mutant: the samples of every channel dropped once the call has written them
WriteDraining(fail) ==
    /\ w.pc \in {"idle", "done"}
    /\ fail \in 0..(HeadOps + ChannelOps * Len(f.Channels))
    /\ WriteReturn(ChannelsLoop(f.Channels, heap,
                                [s |-> WriteHead(SinkAtCall, f, fail),
                                 cur |-> channelsDataPointer(Len(f.Channels)),
                                 i |-> 0, pc |-> "loop"],
                                HeadRecord(f).ChannelsCount, channelsMetaPointer, fail))
    /\ heap' = [a \in 1..Len(heap) |-> [heap[a] EXCEPT !.Data.s = <<>>]]
    /\ UNCHANGED <<f, added, appended, closed>>

\* the caller calls f.Write(fd): on a new descriptor, or again on the one just written
Write(fail) ==
    /\ w.pc \in {"idle", "done"}
    /\ fail \in 0..(HeadOps + ChannelOps * Len(f.Channels))
    /\ WriteReturn(ChannelsLoop(f.Channels, heap,
                                [s |-> WriteHead(SinkAtCall, f, fail),
                                 cur |-> channelsDataPointer(Len(f.Channels)),
                                 i |-> 0, pc |-> "loop"],
                                HeadRecord(f).ChannelsCount, channelsMetaPointer, fail))
    /\ UNCHANGED <<f, heap, added, appended, closed>>

\* the caller closes the descriptor and creates a new, empty file
NewSink ==
    /\ w.pc = "done"
    /\ fd' = [pos |-> 0, size |-> 0]
    /\ written' = <<>>
    /\ io' = NoFaults
    /\ w' = IdleFrame
    /\ closed' = IF w.startPos = 0 /\ w.startSize = 0 /\ io.errors = 0
                  THEN [some |-> TRUE, out |-> written, size |-> fd.size]
                  ELSE NoFile
    /\ UNCHANGED <<f, heap, added, appended>>

-----------------------------------------------------------------------------
(* Specifications *)

Room == Min(MaxArgs, MaxChannels - Len(f.Channels))

\* a caller of any kind and a sink that never fails
Next ==
    \/ \E n \in 1..Room : \E args \in [1..n -> ArgInputs] : AddChannels(args)
    \/ \E a \in 1..Len(heap) : AddData(a, SampleAt(Len(heap[a].Data.s) + 1))
    \/ Write(0)
    \/ NewSink

Spec == Init /\ [][Next]_vars

\* channels added one at a time and a sink whose operations may fail
NextIO ==
    \/ \E arg \in IOArgInputs : AddChannels(<<arg>>)
    \/ \E fail \in 0..(HeadOps + ChannelOps * MaxChannels) : Write(fail)
    \/ NewSink

SpecIO == Init /\ [][NextIO]_vars

\* text of every length around the capacities, channels added one at a time
InitText == InitWith(TextProfiles)

NextText ==
    \/ \E arg \in TextArgInputs : AddChannels(<<arg>>)
    \/ Write(0)
    \/ NewSink

SpecText == InitText /\ [][NextText]_vars

-----------------------------------------------------------------------------
(* Files of many channels.  The loop of File.Write is followed one         *)
(* iteration at a time, from an iteration near one of the places where the *)
(* 16-bit values of the loop change, on a sink that never fails.  The File *)
(* holds k entries, all of them the same *Channel[float32] without samples *)
(* (AddChannels(c) called k times).  A collection of that length is not    *)
(* kept in the state: f.Channels holds the one entry all k entries are,    *)
(* the arguments of AddChannels are kept the same way, and w.len is k,     *)
(* the length the range statement took.  written holds the writes of the   *)
(* iterations followed.                                                    *)

\* most iterations followed in one call
WideSteps == 3

\* channel counts: small ones, and those around 0x10000 - 0x2EE1 and 0x10000
WideCounts == {1, 2, 3, 53534, 53535, 53536, 53537, 65535, 65536, 65537, 65538}

\* the iterations a call of k channels is picked up at
WideStarts(k) ==
    {0, 1, k - 3, k - 2, k - 1, 53533, 53534, 53535, 65534, 65535, 65536}
        \cap (0..(k - 1))

WideChannel == ChannelInput("float32", "short", DataPtr(<<>>))

\* the Header of a File of k channels
WideHead(k) ==
    HeadRecord([FileInput("short") EXCEPT !.Channels = [j \in 1..k |-> [kind |-> "ptr", ref |-> 1]]])

\* File.Write of a File of k channels at the head of iteration i: the Header,
\* Event, Venue and Vehicle are written, and so are the metadata records of the
\* iterations before i, each followed by a seek to the data pointer
InitWide ==
    \E k \in WideCounts : \E i \in WideStarts(k) :
        /\ f = [FileInput("short") EXCEPT !.Channels = <<[kind |-> "ptr", ref |-> 1]>>]
        /\ heap = <<WideChannel>>
        /\ fd = [pos |-> IF i = 0 THEN channelsMetaPointer ELSE channelsDataPointer(k),
                 size |-> channelsMetaPointer + channelMetaSize * Min(i, 65536)]
        /\ written = <<>>
        /\ w = [ pc |-> "loop",
                 i |-> i,
                 len |-> k,
                 ChannelsCount |-> WideHead(k).ChannelsCount,
                 channelsMetaPointer |-> channelsMetaPointer,
                 channelsDataPointer |-> channelsDataPointer(k),
                 currentDataPointer |-> channelsDataPointer(k),
                 startPos |-> 0,
                 startSize |-> 0 ]
        /\ io = NoFaults
        /\ added = <<PtrArg(WideChannel)>>
        /\ appended = << <<>> >>
        /\ closed = NoFile

\* iteration w.i of the loop: the type switch and the call of Channel.Write
WideIteration ==
    /\ w.pc = "loop"
    /\ w.i < w.len
    /\ Len(written) < 2 * WideSteps
    /\ LET entry == f.Channels[1]
           s == [pos |-> fd.pos, size |-> fd.size, out |-> written,
                 errors |-> 0, firstErrAt |-> -1]
       IN IF ~Supported(entry)
          THEN /\ w' = [w EXCEPT !.i = @ + 1]
               /\ UNCHANGED <<fd, written>>
          ELSE IF heap[entry.ref].Data.nil
          THEN /\ w' = [w EXCEPT !.pc = "panic"]
               /\ UNCHANGED <<fd, written>>
          ELSE LET c == heap[entry.ref]
                   s1 == ChannelWrite(s, c, U16(w.i), w.ChannelsCount,
                                      w.channelsMetaPointer, w.currentDataPointer, 0)
               IN /\ fd' = [pos |-> s1.pos, size |-> s1.size]
                  /\ written' = s1.out
                  /\ w' = [w EXCEPT !.i = @ + 1,
                                    !.currentDataPointer = NextDataPointer(c, @)]
    /\ UNCHANGED <<f, heap, io, added, appended, closed>>

\* the range is exhausted and File.Write returns
WideReturn ==
    /\ w.pc = "loop"
    /\ w.i = w.len
    /\ w' = [w EXCEPT !.pc = "done"]
    /\ UNCHANGED <<f, heap, fd, written, io, added, appended, closed>>

NextWide ==
    \/ WideIteration
    \/ WideReturn

SpecWide == InitWide /\ [][NextWide]_vars

-----------------------------------------------------------------------------
(* What a Write call wrote *)

nChannels == Len(f.Channels)

\* the call has ended: it returned, or a panic unwound it
Ended == w.pc \in {"done", "panic"}

HasRec(kind, n) ==
    \E j \in 1..Len(written) : written[j].rec.kind = kind /\ written[j].n = n

RecOf(kind, n) ==
    written[CHOOSE j \in 1..Len(written) :
                written[j].rec.kind = kind /\ written[j].n = n]

\* the metadata record and the data of channel i (0-based)
HasMeta(i) == HasRec("meta", i)
MetaOf(i) == RecOf("meta", i).rec
MetaAt(i) == RecOf("meta", i).at
DataOf(i) == RecOf("data", i)

\* the absolute offset of metadata record i
MetaOffset(i) == w.channelsMetaPointer + channelMetaSize * i

AllSupported == \A j \in 1..nChannels : Supported(f.Channels[j])

\* the first cap bytes of s, filled up with zero bytes
Truncated(cap, s) == [j \in 1..cap |-> IF j <= Len(s) THEN s[j] ELSE 0]

\* the field fld of capacity cap holds the string s, cut or filled up
Stored(fld, cap, s) == FieldBytes(fld) = Truncated(cap, s)

-----------------------------------------------------------------------------
(* C1: in every metadata record File.Write writes, for channel i of k,     *)
(* PreviousMetaPointer is 0 exactly when i = 0 and NextMetaPointer is 0    *)
(* exactly when i = k - 1; otherwise they are the absolute offsets of the  *)
(* metadata records i - 1 and i + 1, channelsMetaOffset + metaRecordSize * *)
(* (i - 1) and * (i + 1), which is where those records are written.        *)
C1_MetaLinks ==
    \A i \in 0..(nChannels - 1) :
        HasMeta(i) =>
            /\ MetaAt(i) = MetaOffset(i)
            /\ (MetaOf(i).PreviousMetaPointer = 0) <=> (i = 0)
            /\ (MetaOf(i).NextMetaPointer = 0) <=> (i = nChannels - 1)
            /\ i # 0 =>
                /\ MetaOf(i).PreviousMetaPointer = MetaOffset(i - 1)
                /\ HasMeta(i - 1) => MetaOf(i).PreviousMetaPointer = MetaAt(i - 1)
            /\ i # nChannels - 1 =>
                /\ MetaOf(i).NextMetaPointer = MetaOffset(i + 1)
                /\ HasMeta(i + 1) => MetaOf(i).NextMetaPointer = MetaAt(i + 1)

\* a Write of three supported channels returned: first, middle and last record
C1_Witness ==
    /\ w.pc = "done" /\ nChannels = 3 /\ AllSupported
    /\ HasMeta(0) /\ HasMeta(1) /\ HasMeta(2)
    /\ MetaOf(1).PreviousMetaPointer = MetaAt(0)
    /\ MetaOf(1).NextMetaPointer = MetaAt(2)

-----------------------------------------------------------------------------
\* the size of the data slice metadata record i describes
SliceBytes(i) == MetaOf(i).DataTypeLength * MetaOf(i).DataLength

(* C2: the data slices tile the data region in insertion order: the first  *)
(* DataPointer is channelsDataOffset, DataPointer(i+1) = DataPointer(i) +  *)
(* DataTypeLength(i) * DataLength(i) as written in record i, every slice   *)
(* is written at its DataPointer with that many bytes, and the bytes       *)
(* written to the data region are the sum of DataLength * DataTypeLength.  *)
C2_DataTiling ==
    /\ HasMeta(0) => MetaOf(0).DataPointer = w.channelsDataPointer
    /\ \A i \in 0..(nChannels - 1) :
           HasMeta(i) =>
               /\ HasRec("data", i)
               /\ DataOf(i).at = MetaOf(i).DataPointer
               /\ DataOf(i).size = SliceBytes(i)
               /\ Len(DataOf(i).rec.bytes) = SliceBytes(i)
               /\ HasMeta(i + 1) =>
                      MetaOf(i + 1).DataPointer = MetaOf(i).DataPointer + SliceBytes(i)
    /\ SumSeq([j \in 1..Len(written) |->
                  IF written[j].rec.kind = "data" THEN written[j].size ELSE 0])
         = SumSeq([j \in 1..Len(written) |->
                  IF written[j].rec.kind = "meta"
                  THEN written[j].rec.DataTypeLength * written[j].rec.DataLength
                  ELSE 0])
    /\ w.pc = "done" /\ AllSupported =>
           w.currentDataPointer - w.channelsDataPointer
             = SumSeq([i \in 1..nChannels |-> SliceBytes(i - 1)])

\* a Write returned with two adjacent channels of different element widths,
\* both holding samples
C2_Witness ==
    /\ w.pc = "done"
    /\ \E i \in 0..(nChannels - 2) :
           /\ HasMeta(i) /\ HasMeta(i + 1)
           /\ MetaOf(i).DataLength > 0 /\ MetaOf(i + 1).DataLength > 0
           /\ MetaOf(i).DataTypeLength # MetaOf(i + 1).DataTypeLength

-----------------------------------------------------------------------------
\* the Header record written
Header == RecOf("head", -1).rec

\* the regions as laid out, in file order, as <<start, end>>
Regions ==
    <<  <<0, headerSize>>,
        <<RecOf("event", -1).at, RecOf("event", -1).at + eventSize>>,
        <<RecOf("venue", -1).at, RecOf("venue", -1).at + venueSize>>,
        <<RecOf("vehicle", -1).at, RecOf("vehicle", -1).at + vehicleSize>>,
        <<Header.ChannelsMetaPointer, Header.ChannelsMetaPointer + channelMetaSize * nChannels>>,
        <<Header.ChannelsDataPointer, w.currentDataPointer>> >>

(* C3: the offsets are the cumulative sums of the record sizes in file     *)
(* order, channelsDataOffset - channelsMetaOffset = metaRecordSize * k,    *)
(* the pointers in Header, Event and Venue equal them, Event, Venue,       *)
(* Vehicle and the metadata records are written at them, and the regions   *)
(* of Header (offset 0, headerSize bytes), Event, Venue, Vehicle, the      *)
(* metadata records and the data follow each other without overlap.        *)
C3_Offsets ==
    Ended =>
        /\ Header.EventPointer = headerSize
        /\ RecOf("event", -1).at = Header.EventPointer
        /\ RecOf("event", -1).rec.VenuePointer = Header.EventPointer + eventSize
        /\ RecOf("venue", -1).at = RecOf("event", -1).rec.VenuePointer
        /\ RecOf("venue", -1).rec.VehiclePointer = RecOf("venue", -1).at + venueSize
        /\ RecOf("vehicle", -1).at = RecOf("venue", -1).rec.VehiclePointer
        /\ Header.ChannelsMetaPointer = RecOf("vehicle", -1).at + vehicleSize
        /\ w.channelsMetaPointer = Header.ChannelsMetaPointer
        /\ w.channelsDataPointer = Header.ChannelsDataPointer
        /\ Header.ChannelsCount = nChannels
        /\ Header.ChannelsDataPointer - Header.ChannelsMetaPointer = channelMetaSize * nChannels
        /\ \A r \in 1..5 :
               /\ Regions[r][1] <= Regions[r][2]
               /\ Regions[r][2] = Regions[r + 1][1]
        /\ \A j \in 1..Len(written) :
               /\ written[j].rec.kind = "meta" =>
                      /\ Regions[5][1] <= written[j].at
                      /\ written[j].at + written[j].size <= Regions[5][2]
               /\ written[j].rec.kind = "data" =>
                      /\ Regions[6][1] <= written[j].at
                      /\ written[j].at + written[j].size <= Regions[6][2]
        /\ \A i, j \in 1..Len(written) :
               i < j /\ written[i].rec.kind # "head" /\ written[j].rec.kind # "head" =>
                   \/ written[i].at + written[i].size <= written[j].at
                   \/ written[j].at + written[j].size <= written[i].at

\* a Write of two supported channels with data returned
C3_Witness ==
    /\ w.pc = "done" /\ nChannels = 2 /\ AllSupported
    /\ Header.ChannelsDataPointer = Header.ChannelsMetaPointer + 2 * channelMetaSize
    /\ w.currentDataPointer > w.channelsDataPointer

-----------------------------------------------------------------------------
(* C4: when an operation of the sink fails during File.Write, the call     *)
(* stops there: nothing is written after the first failed operation, and   *)
(* the call does not return as if it had succeeded.                        *)
C4_AbortOnError ==
    io.errors > 0 =>
        /\ Len(written) = io.firstErrAt
        /\ w.pc # "done"

-----------------------------------------------------------------------------
(* C5: the Header is written at absolute offset 0 whatever the offset of   *)
(* the descriptor at the call, and every other record at the offset the    *)
(* pointers hold.                                                          *)
C5_HeaderAtZero ==
    \A j \in 1..Len(written) :
        LET e == written[j]
        IN /\ e.rec.kind = "head" => e.at = 0
           /\ e.rec.kind = "event" => e.at = Header.EventPointer
           /\ e.rec.kind = "venue" => e.at = RecOf("event", -1).rec.VenuePointer
           /\ e.rec.kind = "vehicle" => e.at = RecOf("venue", -1).rec.VehiclePointer
           /\ e.rec.kind = "meta" => e.at = MetaOffset(e.n)
           /\ e.rec.kind = "data" => e.at = MetaOf(e.n).DataPointer

-----------------------------------------------------------------------------
\* metadata record i and its data are those of the i-th argument of AddChannels
\* and of the samples its Channel object was given since
C6_Describes(i) ==
    LET a == f.Channels[i + 1].ref
        init == added[i + 1].c
        samples == init.Data.s \o appended[a]
    IN /\ heap[a].T = init.T
       /\ heap[a].Data.s = samples
       /\ HasMeta(i) /\ HasRec("data", i)
       /\ MetaOf(i).ChannelId = ChannelIdBase + i
       /\ MetaOf(i).DataType = DataTypeOf(init.T).DataType
       /\ MetaOf(i).DataTypeLength = DataTypeOf(init.T).DataTypeLength
       /\ MetaOf(i).Frequency = init.Frequency
       /\ Stored(MetaOf(i).Name, CapChannelName, init.Name)
       /\ Stored(MetaOf(i).ShortName, CapChannelShortName, init.ShortName)
       /\ Stored(MetaOf(i).Unit, CapChannelUnit, init.Unit)
       /\ MetaOf(i).DataLength = Len(samples)
       /\ DataOf(i).rec.bytes = Flatten([j \in 1..Len(samples) |->
                                            EncodeSample(init.T, samples[j])])

(* C6: after AddChannels and AddData calls and a Write, File.Channels is   *)
(* the concatenation of the AddChannels arguments in call order, metadata  *)
(* record i has ChannelId 0x2EE1 + i and describes the i-th channel added, *)
(* and its DataLength and data are the channel's initial samples followed  *)
(* by the samples appended with AddData, in append order.                  *)
C6_OrderKept ==
    /\ nChannels = Len(added)
    /\ \A i \in 0..(nChannels - 1) : f.Channels[i + 1].kind = added[i + 1].kind
    /\ w.pc = "done" =>
           \A i \in 0..(nChannels - 1) : Supported(f.Channels[i + 1]) => C6_Describes(i)

\* a Write returned for two or more channels, the first two of different types,
\* the second added with an initial sample and given one more after it was added
C6_Witness ==
    /\ w.pc = "done" /\ nChannels >= 2 /\ AllSupported
    /\ heap[f.Channels[1].ref].T # heap[f.Channels[2].ref].T
    /\ added[2].c.Data.s = <<SampleAt(1)>>
    /\ appended[f.Channels[2].ref] = <<SampleAt(2)>>
    /\ MetaOf(1).DataLength = 2

-----------------------------------------------------------------------------
(* C7: every fixed-width text field of capacity C written from a string s  *)
(* holds the first min(len(s), C) bytes of s followed by C - min(len(s),   *)
(* C) zero bytes; a longer string is cut to its first C bytes, and the     *)
(* call returns.                                                           *)
C7_Truncation ==
    /\ w.pc # "panic"
    /\ \A j \in 1..Len(written) :
        LET e == written[j]
        IN /\ e.rec.kind = "head" =>
                  /\ Stored(e.rec.Driver, CapHeadText, f.Driver)
                  /\ Stored(e.rec.Vehicle, CapHeadText, f.Vehicle)
                  /\ Stored(e.rec.Venue, CapHeadText, f.Venue)
                  /\ Stored(e.rec.ShortComment, CapHeadText, f.ShortComment)
           /\ e.rec.kind = "event" =>
                  /\ Stored(e.rec.Name, CapEventName, f.EventName)
                  /\ Stored(e.rec.Session, CapEventSession, f.EventSession)
                  /\ Stored(e.rec.Comment, CapEventComment, f.EventComment)
           /\ e.rec.kind = "venue" =>
                  Stored(e.rec.Name, CapVenueName, f.Venue)
           /\ e.rec.kind = "vehicle" =>
                  /\ Stored(e.rec.Id, CapVehicleId, f.VehicleId)
                  /\ Stored(e.rec.Type, CapVehicleType, f.VehicleType)
                  /\ Stored(e.rec.Comment, CapVehicleComment, f.VehicleComment)
           /\ e.rec.kind = "meta" =>
                  /\ Stored(e.rec.Name, CapChannelName,
                            heap[f.Channels[e.n + 1].ref].Name)
                  /\ Stored(e.rec.ShortName, CapChannelShortName,
                            heap[f.Channels[e.n + 1].ref].ShortName)
                  /\ Stored(e.rec.Unit, CapChannelUnit,
                            heap[f.Channels[e.n + 1].ref].Unit)

\* a Write returned for a File with a driver name of 100 bytes and a channel
\* whose names are one byte longer than their fields
C7_Witness ==
    /\ w.pc = "done"
    /\ Len(f.Driver) = 100
    /\ Len(FieldBytes(Header.Driver)) = 64
    /\ \E i \in 0..(nChannels - 1) :
           /\ HasMeta(i)
           /\ Len(heap[f.Channels[i + 1].ref].ShortName) = CapChannelShortName + 1
           /\ MetaOf(i).ShortName.pad = 0

-----------------------------------------------------------------------------
(* C8: for a File with no channels, File.Write stores channel count 0,     *)
(* sets channelsDataOffset = channelsMetaOffset, writes no channel         *)
(* metadata and no channel data, and the output, written to a new empty    *)
(* file, has size headerSize + eventSize + venueSize + vehicleSize.        *)
C8_NoChannels ==
    Ended /\ nChannels = 0 =>
        /\ w.pc = "done"
        /\ Header.ChannelsCount = 0
        /\ Header.ChannelsDataPointer = Header.ChannelsMetaPointer
        /\ w.channelsDataPointer = w.channelsMetaPointer
        /\ w.currentDataPointer = w.channelsDataPointer
        /\ \A j \in 1..Len(written) : written[j].rec.kind \notin {"meta", "data"}
        /\ Len(written) = 4
        /\ w.startPos = 0 /\ w.startSize = 0 =>
               fd.size = headerSize + eventSize + venueSize + vehicleSize

\* a Write of a File without channels to a new file returned
C8_Witness ==
    /\ w.pc = "done" /\ nChannels = 0 /\ w.startPos = 0 /\ w.startSize = 0
    /\ fd.size = headerSize + eventSize + venueSize + vehicleSize
    /\ Len(written) = 4

-----------------------------------------------------------------------------
\* the number of metadata records written
MetasWritten == Cardinality({j \in 1..Len(written) : written[j].rec.kind = "meta"})

\* the link p is the sentinel or the offset of a metadata record that was written
LinkWritten(p) == p = 0 \/ \E i \in 0..(nChannels - 1) : HasMeta(i) /\ MetaAt(i) = p

(* C9: every entry of File.Channels is a supported channel, so File.Write  *)
(* writes as many metadata records as the channel count it stores in the   *)
(* Header, and every non-zero previous/next link and channelsDataOffset    *)
(* refer to metadata records that were written.                            *)
C9_NoSilentSkip ==
    w.pc = "done" =>
        /\ AllSupported
        /\ MetasWritten = Header.ChannelsCount
        /\ \A i \in 0..(nChannels - 1) :
               HasMeta(i) =>
                   /\ LinkWritten(MetaOf(i).PreviousMetaPointer)
                   /\ LinkWritten(MetaOf(i).NextMetaPointer)
        /\ Header.ChannelsDataPointer
             = Header.ChannelsMetaPointer + channelMetaSize * MetasWritten

-----------------------------------------------------------------------------
\* entry i is a channel whose Data points to an empty sample sequence
ZeroSamples(i) ==
    /\ Supported(f.Channels[i + 1])
    /\ ~heap[f.Channels[i + 1].ref].Data.nil
    /\ heap[f.Channels[i + 1].ref].Data.s = <<>>

\* the loop of the call has reached and left iteration i
Passed(i) == w.pc = "done" \/ (w.pc = "panic" /\ i < w.i)

\* the data pointer handed to the iteration after i
PointerAfter(i) ==
    IF \E k \in (i + 1)..(nChannels - 1) : HasMeta(k)
    THEN MetaOf(CHOOSE k \in (i + 1)..(nChannels - 1) :
                    HasMeta(k) /\ \A l \in (i + 1)..(k - 1) : ~HasMeta(l)).DataPointer
    ELSE w.currentDataPointer

-----------------------------------------------------------------------------
\* the metadata record the iteration before w.i wrote
LastMeta == written[Len(written) - 1]

(* C11: the 16-bit arithmetic of the channel loop agrees with unbounded    *)
(* arithmetic: for every channel count k and index i with 0 <= i < k, the  *)
(* metadata record of iteration i has ChannelId 0x2EE1 + i, is written at  *)
(* channelsMetaOffset + metaRecordSize * i and has NextMetaPointer 0       *)
(* exactly when i = k - 1, k being the length of File.Channels the loop    *)
(* ranges over, which is also the count the Header stores and              *)
(* Channel.Write is handed.                                                *)
C11_NoWrap ==
    w.pc = "loop" /\ written # <<>> =>
        LET i == w.i - 1
        IN /\ w.ChannelsCount = w.len
           /\ LastMeta.rec.kind = "meta"
           /\ LastMeta.rec.ChannelId = ChannelIdBase + i
           /\ LastMeta.at = w.channelsMetaPointer + channelMetaSize * i
           /\ (LastMeta.rec.NextMetaPointer = 0) <=> (i = w.len - 1)
           /\ i # w.len - 1 =>
                  LastMeta.rec.NextMetaPointer
                    = w.channelsMetaPointer + channelMetaSize * (i + 1)

-----------------------------------------------------------------------------
\* a step in which File.Write runs, from its call to its return or panic
WriteStep == w.pc \in {"idle", "done"} /\ w'.pc \in {"done", "panic"}

\* the call is made on a new, empty file, the File being as it was when the
\* file closed last was written, which was new and empty too
SecondWrite == closed.some /\ fd = [pos |-> 0, size |-> 0]

(* C12: File.Write only reads its input: over a call, every field of the   *)
(* File, the channel collection, its length and order, and every channel's *)
(* fields and samples stay as they were; and a second Write of the same    *)
(* File, no AddChannels or AddData call made since the first, into a new   *)
(* empty file makes the writes the first made into its new empty file, so  *)
(* the two files are equal byte for byte.                                  *)
C12_ReadOnly ==
    [][WriteStep =>
          /\ f' = f
          /\ heap' = heap
          /\ SecondWrite /\ io'.errors = 0 =>
                 /\ w'.pc = "done"
                 /\ written' = closed.out
                 /\ fd'.size = closed.size]_vars

\* a second Write into a new file returned, for a File of two or more channels
\* that hold samples, with the writes the first Write made
C12_Witness ==
    /\ w.pc = "done" /\ w.startPos = 0 /\ w.startSize = 0
    /\ closed.some
    /\ nChannels >= 2 /\ AllSupported
    /\ TotalSamples(heap) = MaxSamples
    /\ written = closed.out
    /\ fd.size = closed.size
    /\ fd.size > w.channelsDataPointer

====
